---- MODULE Spec2Model ----
(***************************************************************************)
(* A model of src/scraper.py: the two-phase scraping driver main(), the    *)
(* checkpoint store (load_existing_results / save_results), the fetcher    *)
(* fetch_url and the field parser parse_rating_field.                      *)
(*                                                                         *)
(* Text is modelled as a tuple of one-character strings, so that           *)
(* str.upper(), str.strip(), str.startswith() and str.rsplit() are         *)
(* computed and are not the identity.  A Python dict is a function whose   *)
(* DOMAIN is the set of keys it holds; an insertion-ordered dict keyed by  *)
(* url is the sequence of its values.  A URL is a small integer.           *)
(***************************************************************************)
EXTENDS Integers, Sequences, FiniteSets, TLC

VARIABLES
    pc,             \* position of main(): collect, load, loop, scrape, mark,
                    \*   count, save, delay, final, done, crashed (idle: not run)
    listing,        \* the site: category -> listing page (table of anchors)
    pages,          \* the site: url -> fields scrape_source extracts from the page
    flaky,          \* the site: urls whose scrape_source call can raise
    json_file,      \* contents of OUTPUT_JSON on disk
    csv_file,       \* contents of OUTPUT_CSV on disk
    cat_idx,        \* index into CATEGORIES of the category being collected
    all_sources,    \* main(): list of (name, url, category)
    existing,       \* main(): mapping url -> record, in insertion order
    results,        \* main(): list of kept records
    scraped_urls,   \* main(): set of processed urls
    skipped,        \* main(): counter
    errors,         \* main(): counter
    scraped_count,  \* main(): counter
    i,              \* main(): 1-based position of the extraction loop
    fetched,        \* history: each scrape_source call of this run, in order: the
                    \*   url, whether the call returned (ok) or raised, the
                    \*   position of the loop (at) and the number of delay()
                    \*   calls made before it (delays)
    save_at,        \* history: value of scraped_count at each mid-run save
    saved,          \* history: the list handed to each save_results call, in order
    interrupted,    \* history: a KeyboardInterrupt was caught by main()
    at_interrupt,   \* history: pc, results, fetched, i, number of saves when it was caught
    cat_failed,     \* history: categories whose listing fetch raised
    crashed_at,     \* history: the pc at which an exception left main()
    exc,            \* history: the exception that left main()
    delays,         \* history: number of delay() calls of this run
    run,            \* number of the current run of main()
    prev,           \* history: outcome of the previous completed run
    f_pc,           \* fetch_url: idle, loop, check, returned, raised
    f_retries,      \* fetch_url: the retries argument
    f_attempt,      \* fetch_url: the loop variable attempt
    f_output,       \* fetch_url: result.stdout of the current attempt
    f_log,          \* history: what each GET issued so far produced
    f_waits,        \* history: seconds slept after each 429
    f_html,         \* fetch_url: the value returned
    p_pc,           \* parse_rating_field: idle, call, returned, raised
    p_text,         \* parse_rating_field: the argument text
    p_label,        \* parse_rating_field: first component of the value returned
    p_value         \* parse_rating_field: second component of the value returned

main_vars == <<pc, listing, pages, flaky, json_file, csv_file, cat_idx, all_sources,
               existing, results, scraped_urls, skipped, errors, scraped_count,
               i, fetched, save_at, saved, interrupted, at_interrupt,
               cat_failed, crashed_at, exc, delays, run, prev>>

fetch_vars == <<f_pc, f_retries, f_attempt, f_output, f_log, f_waits, f_html>>

parse_vars == <<p_pc, p_text, p_label, p_value>>

vars == <<main_vars, fetch_vars, parse_vars>>

----------------------------------------------------------------------------
(* Bounds of the model *)

\* longest list of anchors over both listing pages of a small site
MaxLinks == 2

\* most page-level failures in one run of main()
MaxErrors == 1

\* largest retries argument handed to fetch_url
MaxRetries == 3

\* runs of main() in a row over the same site and the same output files
MaxRuns == 2

(* Program constants *)

\* "if scraped_count % 25 == 0"
SaveEvery == 25

\* "wait = 30 * (attempt + 1)"
BackoffBase == 30

\* "def fetch_url(url, retries=3)"
DefaultRetries == 3

CATEGORIES == <<"Left", "Right">>

\* the columns of FIELDNAMES that the modelled records carry
FIELDNAMES == <<"name", "url", "category", "country">>

----------------------------------------------------------------------------
(* Text *)

USA == <<"U", "S", "A">>
usa == <<"u", "s", "a">>
Canada == <<"C", "a", "n", "a", "d", "a">>
EmptyStr == <<>>

UpperChar(c) ==
    CASE c = "u" -> "U"
      [] c = "s" -> "S"
      [] c = "a" -> "A"
      [] c = "n" -> "N"
      [] c = "d" -> "D"
      [] OTHER -> c

\* str.upper()
Upper(s) == [k \in DOMAIN s |-> UpperChar(s[k])]

\* dict.get(key, default)
Get(d, key, default) == IF key \in DOMAIN d THEN d[key] ELSE default

----------------------------------------------------------------------------
(* The site and the checkpoint files a run can start from *)

SeqsUpTo(S, n) == UNION {[1..k -> S] : k \in 0..n}

EmptyDict == [k \in {} |-> k]

\* the detail pages of a small site
ShortUrls == {1, 2}

\* number of links of the long site: one past the first checkpoint boundary
LongLen == SaveEvery + 1

Anchor(text, href) == [text |-> text, href |-> href]

ShortAnchors == {Anchor(<<"a">>, 1), Anchor(<<"b">>, 2)}

\* a listing page with its mbfc-table, and one without
Page(anchors) == [table |-> TRUE, anchors |-> anchors]
NoTable == [table |-> FALSE, anchors |-> <<>>]

\* what the label patterns of scrape_source find on a detail page
PageFields == {[country |-> USA], [country |-> usa], [country |-> Canada], EmptyDict}

ShortListings ==
    (UNION {{[Left |-> Page(l), Right |-> Page(r)] :
                r \in SeqsUpTo(ShortAnchors, MaxLinks - Len(l))} :
            l \in SeqsUpTo(ShortAnchors, MaxLinks)})
    \cup {[Left |-> NoTable, Right |-> Page(r)] : r \in SeqsUpTo(ShortAnchors, 1)}
    \cup {[Left |-> Page(l), Right |-> NoTable] : l \in SeqsUpTo(ShortAnchors, 1)}
    \* anchors without visible text or without a target
    \cup {[Left |-> Page(<<Anchor(EmptyStr, 1), Anchor(<<"b">>, 2)>>),
           Right |-> Page(<<[text |-> <<"a">>]>>)]}

LongListing ==
    LET half == LongLen \div 2
    IN  [Left  |-> Page([k \in 1..half |-> Anchor(<<"s">>, k)]),
         Right |-> Page([k \in 1..(LongLen - half) |-> Anchor(<<"s">>, half + k)])]

\* the page of the long site that is not a USA page, and the page that can
\* fail to load: none, the first, the one at the checkpoint boundary, the last
LongMarks == {0, 1, SaveEvery, LongLen}

\* the long site: every page is a USA page, except page d (none when d = 0)
LongPages(d) ==
    [u \in 1..LongLen |-> IF u = d THEN [country |-> Canada] ELSE [country |-> USA]]

R1 == [name |-> <<"a">>, url |-> 1, category |-> "Left", country |-> USA]
R1b == [name |-> <<"a">>, url |-> 1, category |-> "Right", country |-> usa]
R2 == [name |-> <<"b">>, url |-> 2, category |-> "Right", country |-> USA]
RNoUrl == [name |-> <<"b">>, category |-> "Left", country |-> USA]

\* a list element that is not a JSON object (a number): it has no keys and is
\* told apart from a record by its single field "scalar"
Num == [scalar |-> 5]

Absent == [kind |-> "absent"]
Garbage == [kind |-> "garbage"]
Json(records) == [kind |-> "json", records |-> records]
\* a file holding valid JSON that is not a list: the number 5
JsonNumber == [kind |-> "json_number"]

CheckpointFiles ==
    {Absent, Garbage, Json(<<R1>>), Json(<<R2, R1, R1b>>), Json(<<R1, RNoUrl>>),
     JsonNumber, Json(<<R1, Num>>)}

----------------------------------------------------------------------------
(* Checkpoint store *)

\* as DictPut, but a new key is put in front of the keys already held
DictPut_front(d, r) ==
    IF \E k \in DOMAIN d : d[k]["url"] = r["url"]
    THEN [k \in DOMAIN d |-> IF d[k]["url"] = r["url"] THEN r ELSE d[k]]
    ELSE <<r>> \o d

\* as DictPut, but a repeated url is kept as a second entry
DictPut_append(d, r) == Append(d, r)

\* one step of {r["url"]: r for r in records}: a repeated key keeps its place
\* in the insertion order and takes the later value
DictPut(d, r) ==
    IF \E k \in DOMAIN d : d[k]["url"] = r["url"]
    THEN [k \in DOMAIN d |-> IF d[k]["url"] = r["url"] THEN r ELSE d[k]]
    ELSE Append(d, r)

RECURSIVE DictOf(_)
DictOf(records) ==
    IF records = <<>> THEN <<>>
    ELSE DictPut(DictOf(SubSeq(records, 1, Len(records) - 1)), records[Len(records)])

Keys(d) == {d[k]["url"] : k \in DOMAIN d}

\* the exception r["url"] raises at the first element of the list where it
\* raises: TypeError for an element that is not a dict, KeyError for a dict
\* without the key
RECURSIVE FirstFault(_)
FirstFault(records) ==
    IF records = <<>> THEN "none"
    ELSE IF "scalar" \in DOMAIN Head(records) THEN "TypeError"
    ELSE IF "url" \notin DOMAIN Head(records) THEN "KeyError"
    ELSE FirstFault(Tail(records))

\* the exception raised inside the try block of load_existing_results
load_raises(file) ==
    IF file.kind = "absent" THEN "none"
    ELSE IF file.kind = "garbage" THEN "JSONDecodeError"
    ELSE IF file.kind = "json_number" THEN "TypeError"  \* "for r in 5"
    ELSE FirstFault(file.records)

\* "except (json.JSONDecodeError, KeyError)"
LoadCaught == {"JSONDecodeError", "KeyError"}

\* the value returned, for a file on which the call returns
load_existing_results(file) ==
    IF file.kind = "absent" THEN <<>>                           \* not os.path.exists
    ELSE IF load_raises(file) \in LoadCaught THEN <<>>          \* return {}
    ELSE DictOf(file.records)

FieldSet == {FIELDNAMES[k] : k \in DOMAIN FIELDNAMES}

\* writer.writerow({k: row.get(k, "") for k in FIELDNAMES})
CsvRow(row) == [k \in FieldSet |-> Get(row, k, EmptyStr)]

JsonDump(rs) == Json(rs)

CsvDump(rs) == [kind |-> "csv", header |-> FIELDNAMES,
                rows |-> [k \in DOMAIN rs |-> CsvRow(rs[k])]]

----------------------------------------------------------------------------
(* Link collector *)

\* "if name and link"
ValidAnchor(a) == a.text # EmptyStr /\ "href" \in DOMAIN a

\* the (name, url) pairs of a listing page
scrape_category(page) ==
    IF ~page.table THEN <<>>
    ELSE LET keep == SelectSeq(page.anchors, ValidAnchor)
         IN  [k \in DOMAIN keep |-> [name |-> keep[k].text, url |-> keep[k].href]]

\* "for name, link in sources: all_sources.append((name, link, category_name))"
Tagged(sources, category) ==
    [k \in DOMAIN sources |->
        [name |-> sources[k].name, url |-> sources[k].url, category |-> category]]

----------------------------------------------------------------------------
(* main() *)

NoInterrupt == [pc |-> "none", results |-> <<>>, fetched |-> <<>>, i |-> 0, saves |-> 0]
NoPrev == [results |-> <<>>, all_sources |-> <<>>, complete |-> FALSE, errors |-> 0]
CsvPartial == [kind |-> "partial"]

FetchIdle ==
    /\ f_pc = "idle"
    /\ f_retries = 0
    /\ f_attempt = 0
    /\ f_output = <<>>
    /\ f_log = <<>>
    /\ f_waits = <<>>
    /\ f_html = <<>>

\* None, as the second component of what parse_rating_field returns
Null == [null |-> TRUE]

ParseIdle ==
    /\ p_pc = "idle"
    /\ p_text = <<>>
    /\ p_label = <<>>
    /\ p_value = Null

\* the locals of main() as it starts
Locals ==
    /\ pc = "collect"
    /\ cat_idx = 1
    /\ all_sources = <<>>
    /\ existing = <<>>
    /\ results = <<>>
    /\ scraped_urls = {}
    /\ skipped = 0
    /\ errors = 0
    /\ scraped_count = 0
    /\ i = 1
    /\ fetched = <<>>
    /\ save_at = <<>>
    /\ saved = <<>>
    /\ interrupted = FALSE
    /\ at_interrupt = NoInterrupt
    /\ cat_failed = {}
    /\ crashed_at = "none"
    /\ exc = "none"
    /\ delays = 0

Init ==
    /\ \/ /\ listing \in ShortListings
          /\ pages \in [ShortUrls -> PageFields]
          /\ flaky = ShortUrls
          /\ json_file \in CheckpointFiles
       \/ /\ listing = LongListing
          /\ \E d \in LongMarks : pages = LongPages(d)
          /\ \E e \in LongMarks : flaky = {e}
          /\ json_file = Absent
    /\ csv_file = Absent
    /\ Locals
    /\ run = 1
    /\ prev = NoPrev
    /\ FetchIdle
    /\ ParseIdle

site_vars == <<listing, pages, flaky>>
file_vars == <<json_file, csv_file>>
loop_vars == <<existing, results, scraped_urls, skipped, errors, scraped_count, i>>
hist_vars == <<fetched, save_at, saved, interrupted, at_interrupt, cat_failed,
               crashed_at, exc, delays>>
run_vars == <<run, prev>>

\* the link the extraction loop is at
Link == all_sources[i]

\* the record main() builds from what scrape_source returns for the link
Data == [name |-> Link.name, url |-> Link.url, category |-> Link.category]
            @@ pages[Link.url]

\* as IsUSA, but without .upper()
IsUSA_exact(data) == Get(data, "country", EmptyStr) = USA

\* 'data.get("country", "").upper() != "USA"' is false
IsUSA(data) == Upper(Get(data, "country", EmptyStr)) = USA

\* one iteration of "for category_name, path in CATEGORIES.items()": the
\* listing page is fetched and its links are appended
CollectCategory ==
    /\ pc = "collect"
    /\ all_sources' = all_sources
            \o Tagged(scrape_category(listing[CATEGORIES[cat_idx]]), CATEGORIES[cat_idx])
    /\ cat_idx' = cat_idx + 1
    /\ pc' = IF cat_idx = Len(CATEGORIES) THEN "load" ELSE "collect"
    /\ UNCHANGED <<site_vars, file_vars, loop_vars, hist_vars, run_vars, fetch_vars,
                   parse_vars>>

\* get_soup raises inside scrape_category: nothing in main() catches it
CollectCategoryFails ==
    /\ pc = "collect"
    /\ cat_failed' = cat_failed \cup {CATEGORIES[cat_idx]}
    /\ crashed_at' = pc
    /\ exc' = "RuntimeError"
    /\ pc' = "crashed"
    /\ UNCHANGED <<site_vars, file_vars, cat_idx, all_sources, loop_vars, fetched,
                   save_at, saved, interrupted, at_interrupt, run_vars, fetch_vars,
                   delays, parse_vars>>

\* as LoadExisting, but scraped_urls starts empty
LoadExisting_unseeded ==
    /\ pc = "load"
    /\ load_raises(json_file) \in LoadCaught \cup {"none"}
    /\ existing' = load_existing_results(json_file)
    /\ results' = existing'
    /\ scraped_urls' = {}
    /\ skipped' = 0
    /\ errors' = 0
    /\ scraped_count' = 0
    /\ i' = 1
    /\ pc' = "loop"
    /\ UNCHANGED <<site_vars, file_vars, cat_idx, all_sources, hist_vars, run_vars,
                   fetch_vars,
                   parse_vars>>

\* "existing = load_existing_results(OUTPUT_JSON)" and the locals set up from it
LoadExisting ==
    /\ pc = "load"
    /\ load_raises(json_file) \in LoadCaught \cup {"none"}
    /\ existing' = load_existing_results(json_file)
    /\ results' = existing'
    /\ scraped_urls' = Keys(existing')
    /\ skipped' = 0
    /\ errors' = 0
    /\ scraped_count' = 0
    /\ i' = 1
    /\ pc' = "loop"
    /\ UNCHANGED <<site_vars, file_vars, cat_idx, all_sources, hist_vars, run_vars,
                   fetch_vars,
                   parse_vars>>

\* load_existing_results raises an exception its except clause does not name:
\* it leaves load_existing_results, and main(), which calls it outside any try
LoadExistingRaises ==
    /\ pc = "load"
    /\ load_raises(json_file) \notin LoadCaught \cup {"none"}
    /\ exc' = load_raises(json_file)
    /\ crashed_at' = pc
    /\ pc' = "crashed"
    /\ UNCHANGED <<site_vars, file_vars, cat_idx, all_sources, loop_vars, fetched,
                   save_at, saved, interrupted, at_interrupt, cat_failed, delays,
                   run_vars, fetch_vars, parse_vars>>

\* "if url in scraped_urls: skipped += 1; continue"
Skip ==
    /\ pc = "loop"
    /\ i <= Len(all_sources)
    /\ Link.url \in scraped_urls
    /\ skipped' = skipped + 1
    /\ i' = i + 1
    /\ UNCHANGED <<pc, site_vars, file_vars, cat_idx, all_sources, existing, results,
                   scraped_urls, errors, scraped_count, hist_vars, run_vars, fetch_vars,
                   parse_vars>>

\* the link is not skipped: main() enters the inner try
BeginScrape ==
    /\ pc = "loop"
    /\ i <= Len(all_sources)
    /\ Link.url \notin scraped_urls
    /\ pc' = "scrape"
    /\ UNCHANGED <<site_vars, file_vars, cat_idx, all_sources, loop_vars, hist_vars,
                   run_vars, fetch_vars,
                   parse_vars>>

\* the loop is exhausted
LoopEnd ==
    /\ pc = "loop"
    /\ i > Len(all_sources)
    /\ pc' = "final"
    /\ UNCHANGED <<site_vars, file_vars, cat_idx, all_sources, loop_vars, hist_vars,
                   run_vars, fetch_vars,
                   parse_vars>>

\* as ScrapeError, but without the inner try: the exception leaves main()
ScrapeError_propagates ==
    /\ pc = "scrape"
    /\ Link.url \in flaky
    /\ errors < MaxErrors
    /\ fetched' = Append(fetched, [url |-> Link.url, ok |-> FALSE, at |-> i,
                                   delays |-> delays])
    /\ crashed_at' = pc
    /\ exc' = "RuntimeError"
    /\ pc' = "crashed"
    /\ UNCHANGED <<site_vars, file_vars, cat_idx, all_sources, loop_vars, save_at,
                   saved, interrupted, at_interrupt, cat_failed, run_vars, fetch_vars,
                   delays, parse_vars>>

\* as ScrapeError, but the url is marked as processed
ScrapeError_marks ==
    /\ pc = "scrape"
    /\ Link.url \in flaky
    /\ errors < MaxErrors
    /\ fetched' = Append(fetched, [url |-> Link.url, ok |-> FALSE, at |-> i,
                                   delays |-> delays])
    /\ errors' = errors + 1
    /\ scraped_urls' = scraped_urls \cup {Link.url}
    /\ pc' = "count"
    /\ UNCHANGED <<site_vars, file_vars, cat_idx, all_sources, existing, results,
                   skipped, scraped_count, i, save_at, saved,
                   interrupted, at_interrupt, cat_failed, crashed_at, run_vars, fetch_vars,
                   exc, delays, parse_vars>>

\* scrape_source raises: "except Exception as e: errors += 1"
ScrapeError ==
    /\ pc = "scrape"
    /\ Link.url \in flaky
    /\ errors < MaxErrors
    /\ fetched' = Append(fetched, [url |-> Link.url, ok |-> FALSE, at |-> i,
                                   delays |-> delays])
    /\ errors' = errors + 1
    /\ pc' = "count"
    /\ UNCHANGED <<site_vars, file_vars, cat_idx, all_sources, existing, results,
                   scraped_urls, skipped, scraped_count, i, save_at, saved,
                   interrupted, at_interrupt, cat_failed, crashed_at, run_vars, fetch_vars,
                   exc, delays, parse_vars>>

\* as ScrapeKeep, but the record is put in front: "results.insert(0, data)"
ScrapeKeep_prepend ==
    /\ pc = "scrape"
    /\ IsUSA(Data)
    /\ fetched' = Append(fetched, [url |-> Link.url, ok |-> TRUE, at |-> i,
                                   delays |-> delays])
    /\ results' = <<Data>> \o results
    /\ pc' = "mark"
    /\ UNCHANGED <<site_vars, file_vars, cat_idx, all_sources, existing, scraped_urls,
                   skipped, errors, scraped_count, i, save_at, saved, interrupted,
                   at_interrupt, cat_failed, crashed_at, run_vars, fetch_vars,
                   exc, delays, parse_vars>>

\* scrape_source returns a USA record: "results.append(data)"
ScrapeKeep ==
    /\ pc = "scrape"
    /\ IsUSA(Data)
    /\ fetched' = Append(fetched, [url |-> Link.url, ok |-> TRUE, at |-> i,
                                   delays |-> delays])
    /\ results' = Append(results, Data)
    /\ pc' = "mark"
    /\ UNCHANGED <<site_vars, file_vars, cat_idx, all_sources, existing, scraped_urls,
                   skipped, errors, scraped_count, i, save_at, saved, interrupted,
                   at_interrupt, cat_failed, crashed_at, run_vars, fetch_vars,
                   exc, delays, parse_vars>>

\* as ScrapeDrop, but the dropped link is not counted
ScrapeDrop_uncounted ==
    /\ pc = "scrape"
    /\ ~IsUSA(Data)
    /\ fetched' = Append(fetched, [url |-> Link.url, ok |-> TRUE, at |-> i,
                                   delays |-> delays])
    /\ scraped_urls' = scraped_urls \cup {Link.url}
    /\ i' = i + 1
    /\ pc' = "loop"
    /\ UNCHANGED <<site_vars, file_vars, cat_idx, all_sources, existing, results,
                   skipped, errors, scraped_count, save_at, saved, interrupted,
                   at_interrupt, cat_failed, crashed_at, run_vars, fetch_vars,
                   exc, delays, parse_vars>>

\* scrape_source returns another record:
\* "scraped_urls.add(url); scraped_count += 1; continue"
ScrapeDrop ==
    /\ pc = "scrape"
    /\ ~IsUSA(Data)
    /\ fetched' = Append(fetched, [url |-> Link.url, ok |-> TRUE, at |-> i,
                                   delays |-> delays])
    /\ scraped_urls' = scraped_urls \cup {Link.url}
    /\ scraped_count' = scraped_count + 1
    /\ i' = i + 1
    /\ pc' = "loop"
    /\ UNCHANGED <<site_vars, file_vars, cat_idx, all_sources, existing, results,
                   skipped, errors, save_at, saved, interrupted, at_interrupt,
                   cat_failed, crashed_at, run_vars, fetch_vars,
                   exc, delays, parse_vars>>

\* "scraped_urls.add(url)" after the append
Mark ==
    /\ pc = "mark"
    /\ scraped_urls' = scraped_urls \cup {Link.url}
    /\ pc' = "count"
    /\ UNCHANGED <<site_vars, file_vars, cat_idx, all_sources, existing, results,
                   skipped, errors, scraped_count, i, hist_vars, run_vars, fetch_vars,
                   parse_vars>>

\* "scraped_count += 1; if scraped_count % 25 == 0"
Count ==
    /\ pc = "count"
    /\ scraped_count' = scraped_count + 1
    /\ pc' = IF scraped_count' % SaveEvery = 0 THEN "save" ELSE "delay"
    /\ UNCHANGED <<site_vars, file_vars, cat_idx, all_sources, existing, results,
                   scraped_urls, skipped, errors, i, hist_vars, run_vars, fetch_vars,
                   parse_vars>>

\* the mid-run "save_results(results, OUTPUT_CSV, OUTPUT_JSON)"
Save ==
    /\ pc = "save"
    /\ json_file' = JsonDump(results)
    /\ csv_file' = CsvDump(results)
    /\ save_at' = Append(save_at, scraped_count)
    /\ saved' = Append(saved, results)
    /\ pc' = "delay"
    /\ UNCHANGED <<site_vars, cat_idx, all_sources, loop_vars, fetched, interrupted,
                   at_interrupt, cat_failed, crashed_at, run_vars, fetch_vars,
                   exc, delays, parse_vars>>

\* "delay()", and the loop moves to the next link
Delay ==
    /\ pc = "delay"
    /\ delays' = delays + 1
    /\ i' = i + 1
    /\ pc' = "loop"
    /\ UNCHANGED <<site_vars, file_vars, cat_idx, all_sources, existing, results,
                   scraped_urls, skipped, errors, scraped_count, fetched, save_at,
                   saved, interrupted, at_interrupt, cat_failed, crashed_at, exc,
                   run_vars, fetch_vars, parse_vars>>

\* what a save_results call cut short can leave on disk
CutSave ==
    {<<json_file, csv_file>>, <<Garbage, csv_file>>,
     <<JsonDump(results), csv_file>>, <<JsonDump(results), CsvPartial>>}

\* as Interrupt, but the inner handler catches it and the loop goes on
Interrupt_swallowed ==
    /\ pc \in {"loop", "scrape", "mark", "count", "save", "delay"}
    /\ ~interrupted
    /\ interrupted' = TRUE
    /\ at_interrupt' = [pc |-> pc, results |-> results, fetched |-> fetched, i |-> i,
                        saves |-> Len(saved)]
    /\ pc' = "delay"
    /\ UNCHANGED <<site_vars, file_vars, cat_idx, all_sources, loop_vars, fetched,
                   save_at, saved, cat_failed, crashed_at, run_vars, fetch_vars,
                   exc, delays, parse_vars>>

\* as Interrupt, but without the outer handler: the exception leaves main()
Interrupt_uncaught ==
    /\ pc \in {"loop", "scrape", "mark", "count", "save", "delay"}
    /\ crashed_at' = pc
    /\ exc' = "KeyboardInterrupt"
    /\ pc' = "crashed"
    /\ UNCHANGED <<site_vars, file_vars, cat_idx, all_sources, loop_vars, fetched,
                   save_at, saved, interrupted, at_interrupt, cat_failed, run_vars,
                   fetch_vars,
                   delays, parse_vars>>

\* KeyboardInterrupt inside the outer try: "except KeyboardInterrupt"
Interrupt ==
    /\ pc \in {"loop", "scrape", "mark", "count", "save", "delay"}
    /\ interrupted' = TRUE
    /\ at_interrupt' = [pc |-> pc, results |-> results, fetched |-> fetched, i |-> i,
                        saves |-> Len(saved)]
    /\ \E f \in (IF pc = "save" THEN CutSave ELSE {<<json_file, csv_file>>}) :
            /\ json_file' = f[1]
            /\ csv_file' = f[2]
    /\ pc' = "final"
    /\ UNCHANGED <<site_vars, cat_idx, all_sources, loop_vars, fetched, save_at,
                   saved, cat_failed, crashed_at, run_vars, fetch_vars,
                   exc, delays, parse_vars>>

\* KeyboardInterrupt outside the outer try: main() is left by the exception
InterruptOutside ==
    /\ pc \in {"collect", "load", "final"}
    /\ \E f \in (IF pc = "final" THEN CutSave ELSE {<<json_file, csv_file>>}) :
            /\ json_file' = f[1]
            /\ csv_file' = f[2]
    /\ crashed_at' = pc
    /\ exc' = "KeyboardInterrupt"
    /\ pc' = "crashed"
    /\ UNCHANGED <<site_vars, cat_idx, all_sources, loop_vars, fetched, save_at,
                   saved, interrupted, at_interrupt, cat_failed, run_vars, fetch_vars,
                   delays, parse_vars>>

\* the final "save_results(results, OUTPUT_CSV, OUTPUT_JSON)" and the summary
FinalSave ==
    /\ pc = "final"
    /\ json_file' = JsonDump(results)
    /\ csv_file' = CsvDump(results)
    /\ saved' = Append(saved, results)
    /\ pc' = "done"
    /\ UNCHANGED <<site_vars, cat_idx, all_sources, loop_vars, fetched, save_at,
                   interrupted, at_interrupt, cat_failed, crashed_at, run_vars, fetch_vars,
                   exc, delays, parse_vars>>

Next ==
    \/ CollectCategory
    \/ CollectCategoryFails
    \/ LoadExisting
    \/ LoadExistingRaises
    \/ Skip
    \/ BeginScrape
    \/ LoopEnd
    \/ ScrapeError
    \/ ScrapeKeep
    \/ ScrapeDrop
    \/ Mark
    \/ Count
    \/ Save
    \/ Delay
    \/ Interrupt
    \/ InterruptOutside
    \/ FinalSave

Spec == Init /\ [][Next]_vars

\* main() is started again after a run that ran to completion: the site and
\* the output files are as that run left them
Rerun ==
    /\ pc = "done"
    /\ ~interrupted
    /\ run < MaxRuns
    /\ run' = run + 1
    /\ prev' = [results |-> results, all_sources |-> all_sources,
                complete |-> TRUE, errors |-> errors]
    /\ pc' = "collect"
    /\ cat_idx' = 1
    /\ all_sources' = <<>>
    /\ existing' = <<>>
    /\ results' = <<>>
    /\ scraped_urls' = {}
    /\ skipped' = 0
    /\ errors' = 0
    /\ scraped_count' = 0
    /\ i' = 1
    /\ fetched' = <<>>
    /\ save_at' = <<>>
    /\ saved' = <<>>
    /\ interrupted' = FALSE
    /\ at_interrupt' = NoInterrupt
    /\ cat_failed' = {}
    /\ crashed_at' = "none"
    /\ exc' = "none"
    /\ delays' = 0
    /\ UNCHANGED <<site_vars, file_vars, fetch_vars, parse_vars>>

ResumeNext == Next \/ Rerun

ResumeSpec == Init /\ [][ResumeNext]_vars

----------------------------------------------------------------------------
(* fetch_url(url, retries) *)

NL == "\n"

Whitespace == {" ", NL}

RECURSIVE LStrip(_)
LStrip(s) == IF s # <<>> /\ Head(s) \in Whitespace THEN LStrip(Tail(s)) ELSE s

RECURSIVE RStrip(_)
RStrip(s) ==
    IF s # <<>> /\ s[Len(s)] \in Whitespace THEN RStrip(SubSeq(s, 1, Len(s) - 1)) ELSE s

\* str.strip()
Strip(s) == LStrip(RStrip(s))

\* s.startswith(c) for a one-character c
StartsWith(s, c) == s # <<>> /\ Head(s) = c

\* positions of the newlines of s
Newlines(s) == {k \in DOMAIN s : s[k] = NL}

\* as RSplit, but output.split("\n", 1): cut at the first newline
RSplit_first(s) ==
    IF Newlines(s) = {} THEN <<s>>
    ELSE LET k == CHOOSE n \in Newlines(s) : \A m \in Newlines(s) : n <= m
         IN  <<SubSeq(s, 1, k - 1), SubSeq(s, k + 1, Len(s))>>

\* output.rsplit("\n", 1)
RSplit(s) ==
    IF Newlines(s) = {} THEN <<s>>
    ELSE LET k == CHOOSE n \in Newlines(s) : \A m \in Newlines(s) : m <= n
         IN  <<SubSeq(s, 1, k - 1), SubSeq(s, k + 1, Len(s))>>

\* "html, status = lines[0], lines[1].strip()", else "output, '0'"
Parsed(output) ==
    LET lines == RSplit(output)
    IN  IF Len(lines) = 2 THEN [html |-> lines[1], status |-> Strip(lines[2])]
        ELSE [html |-> output, status |-> <<"0">>]

Code200 == <<"2", "0", "0">>
Code204 == <<"2", "0", "4">>
Code301 == <<"3", "0", "1">>
Code404 == <<"4", "0", "4">>
Code429 == <<"4", "2", "9">>
Code500 == <<"5", "0", "0">>
Code000 == <<"0", "0", "0">>

\* what curl -w "%{http_code}" can report; 000 when no response was received
Codes == {Code200, Code204, Code301, Code404, Code429, Code500, Code000}

Bodies == {<<>>, <<"h">>, <<"h", NL, "i">>, <<"h", NL>>}

\* one GET as the server answered it
Responses == [body : Bodies, code : Codes]

\* curl -s -w "\n%{http_code}": the body, a newline, the status code
CurlOutput(r) == r.body \o <<NL>> \o r.code

\* main() is not running
MainIdle ==
    /\ pc = "idle"
    /\ listing = LongListing
    /\ pages = LongPages(0)
    /\ flaky = {}
    /\ json_file = Absent
    /\ csv_file = Absent
    /\ cat_idx = 1
    /\ all_sources = <<>>
    /\ existing = <<>>
    /\ results = <<>>
    /\ scraped_urls = {}
    /\ skipped = 0
    /\ errors = 0
    /\ scraped_count = 0
    /\ i = 1
    /\ fetched = <<>>
    /\ save_at = <<>>
    /\ saved = <<>>
    /\ interrupted = FALSE
    /\ at_interrupt = NoInterrupt
    /\ cat_failed = {}
    /\ crashed_at = "none"
    /\ exc = "none"
    /\ delays = 0
    /\ run = 1
    /\ prev = NoPrev

FetchInit ==
    /\ f_pc = "loop"
    /\ f_retries \in 0..MaxRetries
    /\ f_attempt = 0
    /\ f_output = <<>>
    /\ f_log = <<>>
    /\ f_waits = <<>>
    /\ f_html = <<>>
    /\ MainIdle
    /\ ParseIdle

\* subprocess.run returns: curl answered
FetchRun ==
    /\ f_pc = "loop"
    /\ f_attempt < f_retries
    /\ \E r \in Responses :
            /\ f_output' = CurlOutput(r)
            /\ f_log' = Append(f_log, [kind |-> "response", body |-> r.body,
                                       code |-> r.code])
    /\ f_pc' = "check"
    /\ UNCHANGED <<f_retries, f_attempt, f_waits, f_html, main_vars,
                   parse_vars>>

\* subprocess.run returns with nothing on stdout: curl wrote no status line
FetchRunSilent ==
    /\ f_pc = "loop"
    /\ f_attempt < f_retries
    /\ f_output' = <<>>
    /\ f_log' = Append(f_log, [kind |-> "silent", body |-> <<>>, code |-> <<>>])
    /\ f_pc' = "check"
    /\ UNCHANGED <<f_retries, f_attempt, f_waits, f_html, main_vars,
                   parse_vars>>

\* subprocess.run raises (TimeoutExpired after 30 s, OSError, a body that
\* does not decode): no status is obtained and nothing in fetch_url catches it
FetchRunRaises ==
    /\ f_pc = "loop"
    /\ f_attempt < f_retries
    /\ f_log' = Append(f_log, [kind |-> "raised", body |-> <<>>, code |-> <<>>])
    /\ f_pc' = "raised"
    /\ UNCHANGED <<f_retries, f_attempt, f_output, f_waits, f_html, main_vars,
                   parse_vars>>

\* as FetchRateLimited, but the wait is computed from the 0-based attempt
FetchRateLimited_zero_based ==
    /\ f_pc = "check"
    /\ Parsed(f_output).status = Code429
    /\ f_waits' = Append(f_waits, BackoffBase * f_attempt)
    /\ f_attempt' = f_attempt + 1
    /\ f_pc' = "loop"
    /\ UNCHANGED <<f_retries, f_output, f_log, f_html, main_vars,
                   parse_vars>>

\* 'if status == "429"': sleep 30 * (attempt + 1) and continue
FetchRateLimited ==
    /\ f_pc = "check"
    /\ Parsed(f_output).status = Code429
    /\ f_waits' = Append(f_waits, BackoffBase * (f_attempt + 1))
    /\ f_attempt' = f_attempt + 1
    /\ f_pc' = "loop"
    /\ UNCHANGED <<f_retries, f_output, f_log, f_html, main_vars,
                   parse_vars>>

\* as FetchHttpError, but the status is treated as retryable: "continue"
FetchHttpError_retries ==
    /\ f_pc = "check"
    /\ Parsed(f_output).status # Code429
    /\ ~StartsWith(Parsed(f_output).status, "2")
    /\ f_attempt' = f_attempt + 1
    /\ f_pc' = "loop"
    /\ UNCHANGED <<f_retries, f_output, f_log, f_waits, f_html, main_vars,
                   parse_vars>>

\* 'if not status.startswith("2"): raise RuntimeError'
FetchHttpError ==
    /\ f_pc = "check"
    /\ Parsed(f_output).status # Code429
    /\ ~StartsWith(Parsed(f_output).status, "2")
    /\ f_pc' = "raised"
    /\ UNCHANGED <<f_retries, f_attempt, f_output, f_log, f_waits, f_html, main_vars,
                   parse_vars>>

\* "return html"
FetchReturn ==
    /\ f_pc = "check"
    /\ Parsed(f_output).status # Code429
    /\ StartsWith(Parsed(f_output).status, "2")
    /\ f_html' = Parsed(f_output).html
    /\ f_pc' = "returned"
    /\ UNCHANGED <<f_retries, f_attempt, f_output, f_log, f_waits, main_vars,
                   parse_vars>>

\* the for loop ends: 'raise RuntimeError(f"Failed after {retries} retries")'
FetchExhausted ==
    /\ f_pc = "loop"
    /\ f_attempt >= f_retries
    /\ f_pc' = "raised"
    /\ UNCHANGED <<f_retries, f_attempt, f_output, f_log, f_waits, f_html, main_vars,
                   parse_vars>>

FetchNext ==
    \/ FetchRun
    \/ FetchRunSilent
    \/ FetchRunRaises
    \/ FetchRateLimited
    \/ FetchHttpError
    \/ FetchReturn
    \/ FetchExhausted

FetchSpec == FetchInit /\ [][FetchNext]_vars

\* fetch_url is straight-line sequential code: every attempt is bounded by
\* timeout=30 and every sleep is finite, so a step that can be taken is taken
FairFetchSpec == FetchSpec /\ WF_vars(FetchNext)

----------------------------------------------------------------------------
(* parse_rating_field *)

MaxText == 4

\* the characters the argument is drawn from: a letter, the two kinds of
\* whitespace, the parentheses, and the characters of the class [-\d.]
ParseChars == {"L", " ", NL, "(", ")", "-", ".", "0", "5"}

DigitChars == {"0", "1", "2", "3", "4", "5", "6", "7", "8", "9"}

\* the character class [-\d.]
NumChars == DigitChars \cup {"-", "."}

\* position of the last "(" of t, 0 if there is none
LastOpen(t) ==
    LET opens == {k \in DOMAIN t : t[k] = "("}
    IN  IF opens = {} THEN 0 ELSE CHOOSE k \in opens : \A j \in opens : j <= k

\* the lengths group 1 of ^(.+?)\s*\( can have on the text before the "(":
\* at least one character, none of them a newline, only whitespace after it
Group1Lengths(before) ==
    {m \in 1..Len(before) :
        /\ \A k \in 1..m : before[k] # NL
        /\ \A k \in (m + 1)..Len(before) : before[k] \in Whitespace}

\* re.match(r"^(.+?)\s*\(([-\d.]+)\)\s*$", t) for a stripped t: the groups, or
\* matched = FALSE.  The ")" is the last character, group 2 lies between it
\* and the last "(", and the lazy group 1 takes the least length that lets
\* the rest match
Match(t) ==
    LET n == Len(t)
        j == LastOpen(t)
        before == SubSeq(t, 1, j - 1)
        inside == SubSeq(t, j + 1, n - 1)
        lens == Group1Lengths(before)
    IN  IF /\ n > 0
           /\ t[n] = ")"
           /\ j > 0
           /\ inside # <<>>
           /\ \A k \in DOMAIN inside : inside[k] \in NumChars
           /\ lens # {}
        THEN [matched |-> TRUE,
              group1 |-> SubSeq(before, 1, CHOOSE m \in lens : \A l \in lens : m <= l),
              group2 |-> inside]
        ELSE [matched |-> FALSE]

\* the digits of num after an optional leading "-"
Unsigned(num) == IF num # <<>> /\ num[1] = "-" THEN Tail(num) ELSE num

\* float(num) returns, for num over [-\d.]: an optional sign, then digits
\* with at most one ".", at least one digit
FloatAccepts(num) ==
    LET body == Unsigned(num)
    IN  /\ \A k \in DOMAIN body : body[k] # "-"
        /\ Cardinality({k \in DOMAIN body : body[k] = "."}) <= 1
        /\ \E k \in DOMAIN body : body[k] \in DigitChars

RECURSIVE DropLeadingZeros(_)
DropLeadingZeros(ds) ==
    IF ds # <<>> /\ Head(ds) = "0" THEN DropLeadingZeros(Tail(ds)) ELSE ds

RECURSIVE DropTrailingZeros(_)
DropTrailingZeros(ds) ==
    IF ds # <<>> /\ ds[Len(ds)] = "0"
    THEN DropTrailingZeros(SubSeq(ds, 1, Len(ds) - 1)) ELSE ds

\* the value of float(num): its sign, its integer digits without leading
\* zeros and its fraction digits without trailing zeros
Float(num) ==
    LET body == Unsigned(num)
        dots == {k \in DOMAIN body : body[k] = "."}
        d == IF dots = {} THEN Len(body) + 1 ELSE CHOOSE k \in dots : TRUE
        whole == DropLeadingZeros(SubSeq(body, 1, d - 1))
        frac == DropTrailingZeros(SubSeq(body, d + 1, Len(body)))
    IN  [null |-> FALSE,
         neg |-> num[1] = "-" /\ (whole # <<>> \/ frac # <<>>),
         whole |-> whole,
         frac |-> frac]

ParseInit ==
    /\ p_pc = "call"
    /\ p_text \in SeqsUpTo(ParseChars, MaxText)
    /\ p_label = <<>>
    /\ p_value = Null
    /\ MainIdle
    /\ FetchIdle

\* "if match: return match.group(1).strip(), float(match.group(2))"
ParseMatch ==
    /\ p_pc = "call"
    /\ Match(Strip(p_text)).matched
    /\ FloatAccepts(Match(Strip(p_text)).group2)
    /\ p_label' = Strip(Match(Strip(p_text)).group1)
    /\ p_value' = Float(Match(Strip(p_text)).group2)
    /\ p_pc' = "returned"
    /\ UNCHANGED <<p_text, main_vars, fetch_vars>>

\* float(match.group(2)) raises ValueError
ParseRaises ==
    /\ p_pc = "call"
    /\ Match(Strip(p_text)).matched
    /\ ~FloatAccepts(Match(Strip(p_text)).group2)
    /\ p_pc' = "raised"
    /\ UNCHANGED <<p_text, p_label, p_value, main_vars, fetch_vars>>

\* "return text.strip(), None"
ParseNoMatch ==
    /\ p_pc = "call"
    /\ ~Match(Strip(p_text)).matched
    /\ p_label' = Strip(p_text)
    /\ p_value' = Null
    /\ p_pc' = "returned"
    /\ UNCHANGED <<p_text, main_vars, fetch_vars>>

ParseNext ==
    \/ ParseMatch
    \/ ParseRaises
    \/ ParseNoMatch

ParseSpec == ParseInit /\ [][ParseNext]_vars

----------------------------------------------------------------------------
(* Properties *)

Last(q) == q[Len(q)]

\* the loop is past these positions of all_sources
Iterated == {k \in DOMAIN all_sources : k < i}

\* the records appended in this run, after the ones loaded from the checkpoint
Appended == {results[k] : k \in (Len(existing) + 1)..Len(results)}

\* urls whose scrape_source call returned, and the number of calls that raised
FetchedOk == {fetched[k].url : k \in {n \in DOMAIN fetched : fetched[n].ok}}
Raised == Cardinality({k \in DOMAIN fetched : ~fetched[k].ok})

\* the final save_results call has run and wrote the full result set
FinalSaved ==
    /\ saved # <<>>
    /\ Last(saved) = results
    /\ json_file = JsonDump(results)
    /\ csv_file = CsvDump(results)

\* C1 - Resume contract: no url that is a key of the loaded checkpoint mapping
\* is ever handed to scrape_source, every link passed with such a url was
\* counted as skipped, and once the final save has run every loaded record is
\* in the JSON file.
ResumeContract ==
    /\ \A k \in DOMAIN fetched : fetched[k].url \notin Keys(existing)
    /\ skipped >= Cardinality({k \in Iterated : all_sources[k].url \in Keys(existing)})
    /\ pc = "done" =>
          /\ json_file.kind = "json"
          /\ \A k \in DOMAIN existing :
                \E j \in DOMAIN json_file.records : json_file.records[j] = existing[k]

ResumeContractWitness ==
    /\ pc = "done"
    /\ existing # <<>>
    /\ skipped > 0
    /\ Len(results) > Len(existing)

\* C2 - Resume idempotence: a second complete run over the same collected
\* links, started from the files the first complete run wrote, fetches no
\* detail page, skips every link and ends with the first run's result set.
ResumeIdempotent ==
    (/\ run = 2
     /\ pc = "done"
     /\ ~interrupted
     /\ prev.complete
     /\ prev.errors = 0
     /\ all_sources = prev.all_sources)
    => /\ fetched = <<>>
       /\ skipped = Len(all_sources)
       /\ results = prev.results

\* C3 - Checkpoint at the 25-boundary: an uninterrupted run without page
\* failures has made a mid-run save exactly at each multiple of 25 its count
\* of processed links reached.
CheckpointAtEvery25 ==
    (pc = "done" /\ ~interrupted /\ errors = 0)
    => save_at = [k \in 1..(scraped_count \div SaveEvery) |-> k * SaveEvery]

\* C4 - Graceful interruption: once a KeyboardInterrupt is caught in the
\* extraction phase no further link is fetched or processed, no save precedes
\* the final one, and the final save writes exactly the result set as it was
\* when the interrupt arrived.
GracefulInterrupt ==
    interrupted =>
        /\ pc \in {"final", "done", "crashed"}
        /\ fetched = at_interrupt.fetched
        /\ results = at_interrupt.results
        /\ i = at_interrupt.i
        /\ pc = "final" => Len(saved) = at_interrupt.saves
        /\ pc = "done" =>
              /\ Len(saved) = at_interrupt.saves + 1
              /\ Last(saved) = at_interrupt.results
              /\ json_file = JsonDump(at_interrupt.results)
              /\ csv_file = CsvDump(at_interrupt.results)
        /\ pc = "crashed" => crashed_at = "final"

\* interrupted between results.append and scraped_urls.add, links remaining
GracefulInterruptWitness ==
    /\ pc = "done"
    /\ interrupted
    /\ at_interrupt.pc = "mark"
    /\ at_interrupt.i < Len(all_sources)
    /\ Len(results) > Len(existing)

\* C5 as stated - Final save on every exit path: a run that ended, normally
\* or by an interrupt at any point (no listing fetch having failed), has
\* executed the final save of the full result set.
FinalSaveOnEveryExit ==
    (pc \in {"done", "crashed"} /\ cat_failed = {}) => FinalSaved

\* C5 as amended - a run that ended normally or by an interrupt inside the
\* extraction phase has executed the final save of the full result set; a run
\* ends without it only from link collection, from loading the checkpoint or
\* from inside the final save itself.
FinalSaveOnExit ==
    /\ pc = "done" => FinalSaved
    /\ pc = "crashed" => crashed_at \in {"collect", "load", "final"}

\* interrupted in the middle of a mid-run save, and the final save still ran
FinalSaveOnExitWitness ==
    /\ pc = "done"
    /\ interrupted
    /\ at_interrupt.pc = "save"
    /\ results # <<>>

\* C6 - Category-level failure does not abort the run: after a listing fetch
\* has failed the run is still going or has finished; it has not been left by
\* the exception.
CategoryFailureTolerated ==
    cat_failed # {} => pc # "crashed"

\* C7 - Page-level failure never aborts the run: a scrape_source call that
\* raises adds exactly one to errors and leaves the result set and the
\* processed urls alone; the loop then moves past that link, and the run ends
\* only through the final save (or an interrupt inside that save).
PageFailureState ==
    /\ errors = Raised
    /\ Raised > 0 =>
          /\ pc = "crashed" => crashed_at = "final"
          /\ pc = "done" => FinalSaved
          /\ pc = "loop" => \A k \in DOMAIN fetched : fetched[k].at < i

PageFailureStep ==
    (Len(fetched') = Len(fetched) + 1 /\ ~Last(fetched').ok)
    => /\ errors' = errors + 1
       /\ results' = results
       /\ scraped_urls' = scraped_urls
       /\ pc' = "count"

PageFailureContained == []PageFailureState /\ [][PageFailureStep]_vars

\* a link failed, a later link was fetched, and the run completed
PageFailureWitness ==
    /\ pc = "done"
    /\ ~interrupted
    /\ \E j, k \in DOMAIN fetched : j < k /\ ~fetched[j].ok /\ fetched[k].ok

\* the spellings of "USA" that differ only in case
USAForms == {<<a, b, c>> : a \in {"U", "u"}, b \in {"S", "s"}, c \in {"A", "a"}}

PageIsUSA(u) == "country" \in DOMAIN pages[u] /\ pages[u].country \in USAForms

\* C8 - Country filter: a record produced in this run is in the result set
\* if and only if the country on its page is "USA" in some case; kept or
\* dropped, its url is in the processed set once the iteration is over, and
\* it is not fetched again.
CountryFilter ==
    LET ok == FetchedOk
        kept == {results[k].url : k \in (Len(existing) + 1)..Len(results)}
    IN  /\ kept \subseteq ok
        /\ \A u \in ok : PageIsUSA(u) <=> u \in kept
        /\ (pc # "mark" /\ at_interrupt.pc # "mark") => ok \subseteq scraped_urls
        /\ \A j, k \in DOMAIN fetched :
                (j < k /\ fetched[j].ok) => fetched[k].url # fetched[j].url

\* a lower-case "usa" page was kept and another page was dropped
CountryFilterWitness ==
    /\ pc = "done"
    /\ \E r \in Appended : r.country = usa
    /\ \E u \in FetchedOk : ~PageIsUSA(u) /\ u \in scraped_urls

Success(e) == e.kind = "response" /\ e.code \in {Code200, Code204}

FetchDone == f_pc \in {"returned", "raised"}

FetchBoundedState ==
    /\ Len(f_log) <= f_retries
    /\ \A k \in DOMAIN f_log : k < Len(f_log) => ~Success(f_log[k])
    /\ f_pc = "returned" =>
          /\ f_log # <<>>
          /\ Success(Last(f_log))
          /\ f_html = Last(f_log).body
    /\ f_pc = "raised" => \A k \in DOMAIN f_log : ~Success(f_log[k])

\* C10 - Bounded fetch: fetch_url issues at most retries GETs, returns the
\* body of the first GET answered 2xx, raises exactly when no GET was
\* answered 2xx, and always ends.
FetchBounded == []FetchBoundedState /\ <>FetchDone

\* the default budget used up: two 429s, then a 2xx whose body holds a newline
FetchBoundedWitness ==
    /\ f_pc = "returned"
    /\ f_retries = DefaultRetries
    /\ Len(f_log) = DefaultRetries
    /\ NL \in {f_html[k] : k \in DOMAIN f_html}

\* a GET answered with a status that is neither 2xx nor 429
TerminalStatus(e) ==
    e.kind = "response" /\ e.code \notin {Code200, Code204, Code429}

RateLimited(e) == e.kind = "response" /\ e.code = Code429

\* C11 - A status that is neither 2xx nor 429 is terminal: a GET answered
\* with such a status is the last GET of the call, nothing is slept after it,
\* and the call is checking it or has raised.
TerminalStatusFailsAtOnce ==
    \A k \in DOMAIN f_log :
        TerminalStatus(f_log[k]) =>
            /\ k = Len(f_log)
            /\ f_pc \in {"check", "raised"}
            /\ Len(f_waits) = k - 1
            /\ f_attempt = k - 1

\* a 429, then a 500 with one attempt of the default budget left
TerminalStatusWitness ==
    /\ f_pc = "raised"
    /\ f_retries = DefaultRetries
    /\ Len(f_log) = 2
    /\ RateLimited(f_log[1])
    /\ f_log[2].kind = "response"
    /\ f_log[2].code = Code500

\* C12 - Rate-limit backoff: the n-th attempt answered 429 is followed by a
\* wait of 30 * n seconds, each 429 uses up one attempt, and the call raises
\* after a 429 only when all retries attempts were answered 429.
RateLimitBackoff ==
    /\ \A k \in DOMAIN f_waits : f_waits[k] = 30 * k /\ RateLimited(f_log[k])
    /\ f_attempt = Len(f_waits)
    /\ \A k \in DOMAIN f_log :
            RateLimited(f_log[k]) =>
                \/ k \in DOMAIN f_waits
                \/ k = Len(f_log) /\ f_pc = "check"
    /\ (f_pc = "raised" /\ f_log # <<>> /\ RateLimited(Last(f_log))) =>
            /\ Len(f_log) = f_retries
            /\ \A k \in DOMAIN f_log : RateLimited(f_log[k])
    /\ (f_pc = "loop" /\ f_log # <<>> /\ Len(f_log) < f_retries) => ENABLED FetchRun

\* the default budget used up by three 429s
RateLimitBackoffWitness ==
    /\ f_pc = "raised"
    /\ f_retries = DefaultRetries
    /\ f_waits = <<30, 60, 90>>

\* an attempt that obtained no HTTP status: subprocess.run raised, curl wrote
\* nothing, or curl reported 000
TransportFailure(e) ==
    \/ e.kind \in {"raised", "silent"}
    \/ e.kind = "response" /\ e.code = Code000

\* C13 - Transport errors are retried: a call that raised after an attempt
\* failed at the transport level had used its whole attempt budget.
TransportErrorsRetried ==
    (f_pc = "raised" /\ f_log # <<>> /\ TransportFailure(Last(f_log)))
    => Len(f_log) = f_retries

\* C14 - Delay-paced requests: between any two consecutive scrape_source
\* calls of one run a delay() call is made.
DelayPaced ==
    \A k \in 2..Len(fetched) : fetched[k].delays > fetched[k - 1].delays

\* a checkpoint that is a collection of records each containing a url key
WellFormed(file) ==
    /\ file.kind = "json"
    /\ \A k \in DOMAIN file.records :
            "scalar" \notin DOMAIN file.records[k] /\ "url" \in DOMAIN file.records[k]

\* C15 - Checkpoint corruption is never fatal: no exception of
\* load_existing_results ends the run, and a checkpoint that is absent or is
\* not a collection of records each containing a url is loaded as the empty
\* mapping.
CorruptCheckpointNotFatal ==
    /\ crashed_at = "load" => exc = "KeyboardInterrupt"
    /\ (pc \in {"load", "loop"} /\ i = 1 /\ ~WellFormed(json_file)) =>
            existing = <<>>

\* C16 - Save/load round trip: for every list handed to save_results, loading
\* the JSON it wrote and saving the loaded records writes the same JSON and
\* the same CSV (same records, same order, same values); and what a completed
\* run leaves on disk is what saving its result set writes.
SaveLoadRoundTrip ==
    /\ \A n \in DOMAIN saved :
            LET first == JsonDump(saved[n])
                loaded == load_existing_results(first)
            IN  /\ load_raises(first) = "none"
                /\ JsonDump(loaded) = first
                /\ CsvDump(loaded) = CsvDump(saved[n])
    /\ pc = "done" =>
            /\ json_file = JsonDump(results)
            /\ csv_file = CsvDump(results)

\* a completed run whose saved list holds url 2 before url 1, both scraped
\* in this run
SaveLoadRoundTripWitness ==
    /\ pc = "done"
    /\ Len(results) = 2
    /\ results[1]["url"] = 2
    /\ results[2]["url"] = 1
    /\ existing = <<>>
    /\ saved = <<results>>

\* the decimal numerals: an optional minus sign, then digits with at most one
\* point (at position p, or none when p is past the end), at least one digit
Numeral(num) ==
    LET start == IF num # <<>> /\ num[1] = "-" THEN 2 ELSE 1
    IN  \E p \in start..(Len(num) + 1) :
            /\ \A k \in start..Len(num) :
                    IF k = p THEN num[k] = "." ELSE num[k] \in DigitChars
            /\ \E k \in start..Len(num) : k # p

\* the ways to read the text as "LABEL (number)": a one-line label, optional
\* whitespace, and a parenthesized numeral that ends the trimmed text
Shapes(text) ==
    LET t == Strip(text)
    IN  {j \in DOMAIN t :
            /\ t[j] = "("
            /\ t[Len(t)] = ")"
            /\ Numeral(SubSeq(t, j + 1, Len(t) - 1))
            /\ Strip(SubSeq(t, 1, j - 1)) # <<>>
            /\ \A k \in 1..(j - 1) : t[k] # NL}

\* C17 - Composite field parsing is total and exact: parse_rating_field
\* never raises; for "LABEL (number)" it returns the trimmed label before the
\* last parenthesized group and the number; for any other input it returns
\* the trimmed input and null.
ParseTotalExact ==
    /\ p_pc # "raised"
    /\ p_pc = "returned" =>
            LET t == Strip(p_text)
            IN  IF Shapes(p_text) # {}
                THEN \E j \in Shapes(p_text) :
                        /\ p_label = Strip(SubSeq(t, 1, j - 1))
                        /\ p_value = Float(SubSeq(t, j + 1, Len(t) - 1))
                ELSE p_label = t /\ p_value = Null

\* a is a prefix of b
IsPrefix(a, b) == Len(a) <= Len(b) /\ SubSeq(b, 1, Len(a)) = a

\* C18 - The result set is append-only within a run: it starts as the list
\* loaded from the checkpoint, and the list handed to each save_results call
\* has the loaded list and the list of the previous call as a prefix, and is
\* itself a prefix of the result set from then on.
AppendOnly ==
    /\ IsPrefix(existing, results)
    /\ (pc = "loop" /\ fetched = <<>>) => results = existing
    /\ \A n \in DOMAIN saved :
            /\ IsPrefix(existing, saved[n])
            /\ IsPrefix(saved[n], results)
            /\ n > 1 => IsPrefix(saved[n - 1], saved[n])

\* a mid-run save of a non-empty list, then a final save of a longer one
AppendOnlyWitness ==
    /\ pc = "done"
    /\ Len(saved) = 2
    /\ saved[1] # <<>>
    /\ Len(saved[2]) > Len(saved[1])

\* at an iteration boundary the counters add up: every link iterated so far
\* was either skipped or counted, once, in scraped_count, and the counted
\* links are the ones scrape_source was called for
CounterState ==
    pc = "loop" =>
        /\ skipped + scraped_count = i - 1
        /\ errors <= scraped_count
        /\ scraped_count = Len(fetched)
        /\ \A j, k \in DOMAIN fetched : j # k => fetched[j].at # fetched[k].at
        /\ errors = Cardinality({k \in DOMAIN fetched : ~fetched[k].ok})

\* a step that skips a link does nothing else, and scraped_count moves by one
CounterStep ==
    /\ skipped' # skipped =>
            /\ skipped' = skipped + 1
            /\ i' = i + 1
            /\ UNCHANGED <<fetched, saved, save_at, delays, results, scraped_urls,
                           scraped_count, errors, json_file, csv_file>>
    /\ scraped_count' # scraped_count => scraped_count' = scraped_count + 1

\* C19 - Counter accounting: at every iteration boundary skipped +
\* scraped_count is the number of links iterated and errors <= scraped_count;
\* a skipped link causes no fetch, save, delay or change to the result set,
\* the processed set or scraped_count; every other link is counted exactly
\* once, kept, dropped or errored.
CounterAccounting == []CounterState /\ [][CounterStep]_vars

\* a run that ended with one link skipped and one link errored
CounterAccountingWitness ==
    /\ pc = "final"
    /\ ~interrupted
    /\ skipped = 1
    /\ errors = 1
    /\ scraped_count = 1

\* C20 - An errored link is not marked as processed: a url whose
\* scrape_source calls all raised is not in the processed set, has no record
\* in the result set and is not in the checkpoint a completed run leaves, so
\* the next run fetches it; a later occurrence of an errored url in the same
\* run is fetched again unless a call for it has succeeded meanwhile; and a
\* url whose call succeeded is not fetched again in the run.
ErroredNotProcessed ==
    LET ok == FetchedOk
        bad == {fetched[k].url : k \in DOMAIN fetched} \ ok
        at == {fetched[k].at : k \in DOMAIN fetched}
    IN  /\ bad \cap scraped_urls = {}
        /\ \A k \in DOMAIN results : results[k]["url"] \notin bad
        /\ \A n \in DOMAIN saved : \A k \in DOMAIN saved[n] :
                saved[n][k]["url"] \notin bad
        /\ pc = "done" => bad \cap Keys(load_existing_results(json_file)) = {}
        /\ \A j \in DOMAIN fetched : \A k \in Iterated :
                (/\ ~fetched[j].ok
                 /\ k > fetched[j].at
                 /\ all_sources[k].url = fetched[j].url
                 /\ \A m \in DOMAIN fetched :
                        (fetched[m].ok /\ fetched[m].at < k) =>
                            fetched[m].url # fetched[j].url)
                => k \in at
        /\ \A j \in DOMAIN fetched : \A k \in Iterated :
                (fetched[j].ok /\ k > fetched[j].at
                    /\ all_sources[k].url = fetched[j].url)
                => k \notin at

\* a url listed twice: its first call raised, so its second occurrence was
\* fetched again, and that call returned and marked it
ErroredNotProcessedWitness ==
    /\ pc = "done"
    /\ Len(fetched) = 2
    /\ ~fetched[1].ok
    /\ fetched[2].ok
    /\ fetched[2].url = fetched[1].url
    /\ fetched[1].url \in scraped_urls

====
